---- MODULE Spec2Model ----
(***************************************************************************)
(* Equipment maintenance dashboard (src/app.py): the session state, the    *)
(* script run of the page (sidebar load, export, required-column check,    *)
(* the three views and their button handlers) and the pure helpers         *)
(* (code cleaning, duration parsing, cascading filters, statistics).       *)
(*                                                                         *)
(* Text is a sequence of one-character strings; a missing cell (NaN/None)  *)
(* is Null.  A table is [none, cols, rows]: cols the column names in sheet *)
(* order, rows a sequence of functions from column name to cell.           *)
(***************************************************************************)
EXTENDS Integers, Sequences, FiniteSets, TLC

VARIABLES
    excel_file,          \* the uploader's file: 0 = none, else an index of Workbooks
    sheet_choice,        \* the sheet selectbox's value
    view_mode,           \* the view radio's value
    equipment_data,      \* st.session_state.equipment_data
    selected_sheet,      \* st.session_state.selected_sheet
    selected_equipment,  \* st.session_state.selected_equipment
    selected_type,       \* st.session_state.selected_type
    selected_module,     \* st.session_state.selected_module
    selected_components, \* st.session_state.selected_components
    pc,                  \* position of the script: "idle", "load", "main"
    pending,             \* the widget interaction this run delivers
    trigger,             \* the user action that started the current runs
    load_ret,            \* (df, error) returned by the run's load_sheet_data
    reported,            \* column names named by the missing-column error
    view_entered,        \* the view the run rendered
    export,              \* rows offered by the download button
    displayed,           \* rows shown in the data preview
    exception,           \* the run ended in an uncaught exception
    call,                \* pure helper applied (helper specifications)
    arg,                 \* its input
    ret                  \* its result

appvars == <<excel_file, sheet_choice, view_mode, equipment_data, selected_sheet,
             selected_equipment, selected_type, selected_module,
             selected_components, pc, pending, trigger, load_ret, reported,
             view_entered, export, displayed, exception>>
fnvars == <<call, arg, ret>>
vars == <<appvars, fnvars>>

----------------------------------------------------------------------------
(* Text *)

Null == <<"NaN">>

Digits == <<"0", "1", "2", "3", "4", "5", "6", "7", "8", "9">>

UpperCase == <<"A", "B", "C", "D", "E", "F", "G", "H", "I", "J", "K", "L", "M",
               "N", "O", "P", "Q", "R", "S", "T", "U", "V", "W", "X", "Y", "Z">>

LowerCase == <<"a", "b", "c", "d", "e", "f", "g", "h", "i", "j", "k", "l", "m",
               "n", "o", "p", "q", "r", "s", "t", "u", "v", "w", "x", "y", "z">>

\* Code-point order of the characters used (Python compares str by code point).
Alphabet == <<" ", "(", ")", "+", ",", "-", ".">> \o Digits \o <<":">>
            \o UpperCase \o LowerCase

Ord(c) == CHOOSE i \in 1..Len(Alphabet) : Alphabet[i] = c

IsDigit(c) == \E i \in 1..10 : Digits[i] = c

DigitVal(c) == (CHOOSE i \in 1..10 : Digits[i] = c) - 1

IsSpace(c) == c = " "

\* str.lower()
LowerChar(c) ==
    IF \E i \in 1..Len(UpperCase) : UpperCase[i] = c
    THEN LowerCase[CHOOSE i \in 1..Len(UpperCase) : UpperCase[i] = c]
    ELSE c

Lower(s) == [i \in 1..Len(s) |-> LowerChar(s[i])]

\* needle in hay
Contains(hay, needle) ==
    \E i \in 0..(Len(hay) - Len(needle)) :
        \A j \in 1..Len(needle) : hay[i + j] = needle[j]

\* str.strip()
RECURSIVE LStrip(_)
LStrip(s) == IF s # <<>> /\ IsSpace(Head(s)) THEN LStrip(Tail(s)) ELSE s

RECURSIVE RStrip(_)
RStrip(s) ==
    IF s # <<>> /\ IsSpace(s[Len(s)]) THEN RStrip(SubSeq(s, 1, Len(s) - 1)) ELSE s

Strip(s) == RStrip(LStrip(s))

\* str.replace(c, '')
RemoveChar(s, c) == SelectSeq(s, LAMBDA x : x # c)

\* str.split(sep) for a one-character separator
RECURSIVE Split(_, _)
Split(s, sep) ==
    IF \A i \in 1..Len(s) : s[i] # sep
    THEN <<s>>
    ELSE LET k == CHOOSE i \in 1..Len(s) :
                      s[i] = sep /\ \A j \in 1..(i - 1) : s[j] # sep
         IN  <<SubSeq(s, 1, k - 1)>> \o Split(SubSeq(s, k + 1, Len(s)), sep)

RECURSIVE DigitsVal(_)
DigitsVal(s) ==
    IF s = <<>> THEN 0
    ELSE 10 * DigitsVal(SubSeq(s, 1, Len(s) - 1)) + DigitVal(s[Len(s)])

\* int(text): surrounding whitespace, an optional sign, decimal digits
ParseInt(s) ==
    LET t == Strip(s)
        signed == t # <<>> /\ Head(t) \in {"+", "-"}
        body == IF signed THEN Tail(t) ELSE t
        good == body # <<>> /\ \A i \in 1..Len(body) : IsDigit(body[i])
    IN  IF ~good THEN [ok |-> FALSE, val |-> 0]
        ELSE [ok |-> TRUE,
              val |-> IF signed /\ Head(t) = "-" THEN 0 - DigitsVal(body)
                      ELSE DigitsVal(body)]

RECURSIVE NatToText(_)
NatToText(n) ==
    IF n < 10 THEN <<Digits[n + 1]>>
    ELSE NatToText(n \div 10) \o <<Digits[(n % 10) + 1]>>

\* str(int)
IntToText(n) == IF n < 0 THEN <<"-">> \o NatToText(0 - n) ELSE NatToText(n)

\* Python's < on str
RECURSIVE TextLess(_, _)
TextLess(a, b) ==
    IF b = <<>> THEN FALSE
    ELSE IF a = <<>> THEN TRUE
    ELSE IF Head(a) # Head(b) THEN Ord(Head(a)) < Ord(Head(b))
    ELSE TextLess(Tail(a), Tail(b))

\* All texts over the characters cs of length at most n
TextsUpTo(cs, n) == UNION {[1..k -> cs] : k \in 0..n}

----------------------------------------------------------------------------
(* Utility functions *)

time_str_to_seconds(time_str) ==
    IF time_str = Null THEN 0
    ELSE LET parts == Split(time_str, ":")
         IN  IF Len(parts) = 3
             THEN LET h == ParseInt(parts[1])
                      m == ParseInt(parts[2])
                      s == ParseInt(parts[3])
                  IN  IF h.ok /\ m.ok /\ s.ok
                      THEN h.val * 3600 + m.val * 60 + s.val
                      ELSE 0
             ELSE 0

clean_equipment_code(code) ==
    IF code = Null THEN Null
    ELSE LET cleaned == Strip(RemoveChar(code, ","))
             n == ParseInt(cleaned)
         IN  IF n.ok THEN IntToText(n.val) ELSE Strip(code)

----------------------------------------------------------------------------
(* Tables *)

ColEquipmentCode == <<"E", "q", "u", "i", "p", "m", "e", "n", "t", " ", "C", "o", "d", "e">>
ColType == <<"T", "y", "p", "e">>
ColModule == <<"M", "o", "d", "u", "l", "e">>
ColComponents == <<"C", "o", "m", "p", "o", "n", "e", "n", "t", "s">>

\* None in place of a DataFrame
NoneDF == [none |-> TRUE, cols |-> <<>>, rows |-> <<>>]

DF(cols, rows) == [none |-> FALSE, cols |-> cols, rows |-> rows]

\* col in df.columns
HasCol(df, col) == \E i \in 1..Len(df.cols) : df.cols[i] = col

\* df.empty
IsEmpty(df) == df.rows = <<>> \/ df.cols = <<>>

\* df[col]
Column(df, col) == [i \in 1..Len(df.rows) |-> df.rows[i][col]]

\* df[col] = vals
SetColumn(df, col, vals) ==
    [df EXCEPT !.rows = [i \in 1..Len(df.rows) |->
                            [df.rows[i] EXCEPT ![col] = vals[i]]]]

\* df[mask]: the rows of df that are in kept, in their order
SelectRows(df, kept) ==
    [df EXCEPT !.rows = SelectSeq(df.rows, LAMBDA r : r \in kept)]

\* series == value (a missing cell equals nothing)
CellEq(cell, value) == cell # Null /\ value # Null /\ cell = value

\* A fill that carries the first valid value of the column, never a later one
RECURSIVE FfillFrom_First(_, _)
FfillFrom_First(s, last) ==
    IF s = <<>> THEN <<>>
    ELSE LET v == IF Head(s) = Null THEN last ELSE Head(s)
         IN  <<v>> \o FfillFrom_First(Tail(s), IF last = Null THEN v ELSE last)

\* fillna(method='ffill'): carry the last valid value down the column
RECURSIVE FfillFrom(_, _)
FfillFrom(s, last) ==
    IF s = <<>> THEN <<>>
    ELSE LET v == IF Head(s) = Null THEN last ELSE Head(s)
         IN  <<v>> \o FfillFrom(Tail(s), v)

ffill(s) == FfillFrom(s, Null)

\* series.dropna().unique(): the valid values in order of first appearance
RECURSIVE UniqueValid(_)
UniqueValid(s) ==
    IF s = <<>> THEN <<>>
    ELSE LET init == UniqueValid(SubSeq(s, 1, Len(s) - 1))
             v == s[Len(s)]
         IN  IF v = Null \/ \E i \in 1..Len(init) : init[i] = v
             THEN init ELSE Append(init, v)

\* sorted(list of str)
RECURSIVE Sorted(_)
Sorted(s) ==
    IF s = <<>> THEN <<>>
    ELSE LET k == CHOOSE i \in 1..Len(s) :
                      \A j \in 1..Len(s) : ~TextLess(s[j], s[i])
         IN  <<s[k]>> \o Sorted(SubSeq(s, 1, k - 1) \o SubSeq(s, k + 1, Len(s)))

Range(s) == {s[i] : i \in 1..Len(s)}

----------------------------------------------------------------------------
(* Filter functions: cascading logic *)

get_equipment_codes(df) ==
    IF df.none THEN <<>>
    ELSE IF ~HasCol(df, ColEquipmentCode) THEN <<>>
    ELSE Sorted(UniqueValid(Column(df, ColEquipmentCode)))

get_type_for_equipment(df, equipment_code) ==
    IF df.none \/ equipment_code = Null THEN Null
    ELSE IF ~HasCol(df, ColEquipmentCode) \/ ~HasCol(df, ColType) THEN Null
    ELSE LET filtered == SelectRows(df,
                 {r \in Range(df.rows) :
                     CellEq(r[ColEquipmentCode], equipment_code)})
             types == UniqueValid(Column(filtered, ColType))
         IN  IF Len(types) > 0 THEN types[1] ELSE Null

get_modules(df, equipment_code) ==
    IF df.none \/ equipment_code = Null THEN <<>>
    ELSE IF ~HasCol(df, ColEquipmentCode) \/ ~HasCol(df, ColModule) THEN <<>>
    ELSE LET filtered == SelectRows(df,
                 {r \in Range(df.rows) :
                     CellEq(r[ColEquipmentCode], equipment_code)})
         IN  Sorted(UniqueValid(Column(filtered, ColModule)))

\* The components in order of appearance, not sorted
get_components_Unsorted(df, equipment_code, module) ==
    IF df.none \/ equipment_code = Null \/ module = Null THEN <<>>
    ELSE IF ~HasCol(df, ColEquipmentCode) \/ ~HasCol(df, ColModule)
            \/ ~HasCol(df, ColComponents) THEN <<>>
    ELSE LET filtered == SelectRows(df,
                 {r \in Range(df.rows) :
                     /\ CellEq(r[ColEquipmentCode], equipment_code)
                     /\ CellEq(r[ColModule], module)})
         IN  UniqueValid(Column(filtered, ColComponents))

get_components(df, equipment_code, module) ==
    IF df.none \/ equipment_code = Null \/ module = Null THEN <<>>
    ELSE IF ~HasCol(df, ColEquipmentCode) \/ ~HasCol(df, ColModule)
            \/ ~HasCol(df, ColComponents) THEN <<>>
    ELSE LET filtered == SelectRows(df,
                 {r \in Range(df.rows) :
                     /\ CellEq(r[ColEquipmentCode], equipment_code)
                     /\ CellEq(r[ColModule], module)})
         IN  Sorted(UniqueValid(Column(filtered, ColComponents)))

\* The filter without the module step
filter_data_NoModule(df, equipment_code, module, components) ==
    IF df.none THEN NoneDF
    ELSE IF ~HasCol(df, ColEquipmentCode) \/ ~HasCol(df, ColModule) THEN NoneDF
    ELSE LET byCode == SelectRows(df,
                 {r \in Range(df.rows) :
                     CellEq(r[ColEquipmentCode], equipment_code)})
         IN  IF components # <<>>
             THEN IF ~HasCol(df, ColComponents) THEN NoneDF
                  ELSE SelectRows(byCode,
                           {r \in Range(byCode.rows) :
                               r[ColComponents] \in Range(components)})
             ELSE byCode

filter_data(df, equipment_code, module, components) ==
    IF df.none THEN NoneDF
    ELSE IF ~HasCol(df, ColEquipmentCode) \/ ~HasCol(df, ColModule) THEN NoneDF
    ELSE LET byCode == SelectRows(df,
                 {r \in Range(df.rows) :
                     CellEq(r[ColEquipmentCode], equipment_code)})
             byModule == SelectRows(byCode,
                 {r \in Range(byCode.rows) : CellEq(r[ColModule], module)})
         IN  IF components # <<>>
             THEN IF ~HasCol(df, ColComponents) THEN NoneDF
                  ELSE SelectRows(byModule,
                           {r \in Range(byModule.rows) :
                               r[ColComponents] \in Range(components)})
             ELSE byModule

\* sum(...) over a column
RECURSIVE SumSeq(_)
SumSeq(s) == IF s = <<>> THEN 0 ELSE Head(s) + SumSeq(Tail(s))

\* The last matching column instead of the first (a loop without break)
FirstColumnWith_Last(df, w1, w2) ==
    LET hit(i) == Contains(Lower(df.cols[i]), w1) /\ Contains(Lower(df.cols[i]), w2)
    IN  IF \E i \in 1..Len(df.cols) : hit(i)
        THEN df.cols[CHOOSE i \in 1..Len(df.cols) :
                         hit(i) /\ \A j \in (i + 1)..Len(df.cols) : ~hit(j)]
        ELSE Null

\* the first column whose lower-cased name contains both words, or Null
FirstColumnWith(df, w1, w2) ==
    LET hit(i) == Contains(Lower(df.cols[i]), w1) /\ Contains(Lower(df.cols[i]), w2)
    IN  IF \E i \in 1..Len(df.cols) : hit(i)
        THEN df.cols[CHOOSE i \in 1..Len(df.cols) :
                         hit(i) /\ \A j \in 1..(i - 1) : ~hit(j)]
        ELSE Null

\* a mean as a fraction num/den; zero is 0/1
Zero == [num |-> 0, den |-> 1]

calculate_stats(df) ==
    IF df.none \/ IsEmpty(df)
    THEN [records |-> 0, total_time |-> 0, avg_manpower |-> Zero]
    ELSE LET total_time_col == FirstColumnWith(df, <<"t", "o", "t", "a", "l">>,
                                                   <<"t", "i", "m", "e">>)
             manpower_col == FirstColumnWith(df, <<"m", "a", "n">>,
                                                 <<"p", "o", "w", "e", "r">>)
             secs == [i \in 1..Len(df.rows) |->
                         time_str_to_seconds(df.rows[i][total_time_col])]
             nums == SelectSeq([i \in 1..Len(df.rows) |->
                                   IF df.rows[i][manpower_col] = Null
                                   THEN [ok |-> FALSE, val |-> 0]
                                   ELSE ParseInt(df.rows[i][manpower_col])],
                               LAMBDA n : n.ok)
         IN  [records |-> Len(df.rows),
              total_time |-> IF total_time_col # Null THEN SumSeq(secs) ELSE 0,
              avg_manpower |->
                  IF manpower_col # Null /\ Len(nums) > 0
                  THEN [num |-> SumSeq([i \in 1..Len(nums) |-> nums[i].val]),
                        den |-> Len(nums)]
                  ELSE Zero]

----------------------------------------------------------------------------
(* Session state initialization *)

NoView == "none"

SessionInit ==
    /\ equipment_data = NoneDF
    /\ selected_sheet = Null
    /\ selected_equipment = Null
    /\ selected_type = Null
    /\ selected_module = Null
    /\ selected_components = <<>>
    /\ excel_file = 0
    /\ sheet_choice = Null
    /\ view_mode = "Equipment Selection"
    /\ pc = "idle"
    /\ pending = [kind |-> "none"]
    /\ trigger = [kind |-> "none"]
    /\ load_ret = [df |-> NoneDF, error |-> Null]
    /\ reported = <<>>
    /\ view_entered = NoView
    /\ export = NoneDF
    /\ displayed = NoneDF
    /\ exception = FALSE

----------------------------------------------------------------------------
(* Uploaded files *)

ColTotalTime == <<"T", "o", "t", "a", "l", " ", "t", "i", "m", "e">>
ColManpower == <<"N", "o", " ", "o", "f", " ", "m", "a", "n", " ", "p", "o", "w", "e", "r">>

FullCols == <<ColEquipmentCode, ColType, ColModule, ColComponents,
              ColTotalTime, ColManpower>>

Row6(code, type, module, comp, total, men) ==
    (ColEquipmentCode :> code) @@ (ColType :> type) @@ (ColModule :> module)
    @@ (ColComponents :> comp) @@ (ColTotalTime :> total) @@ (ColManpower :> men)

Row4(code, type, module, comp) ==
    (ColEquipmentCode :> code) @@ (ColType :> type) @@ (ColModule :> module)
    @@ (ColComponents :> comp)

\* A sheet with a header row and no data rows
SheetEmpty == [name |-> <<"S", "1">>, cols |-> FullCols, rows |-> <<>>]

\* Merged cells: code, type and module stored on the first row of a block
SheetGood ==
    [name |-> <<"S", "2">>, cols |-> FullCols,
     rows |-> << Row6(<<"1", ",", "0">>, <<"X">>, <<"B">>, <<"b">>,
                      <<"0", ":", "0", ":", "9">>, <<"2">>),
                 Row6(Null, Null, Null, <<"a", "b">>,
                      <<"0", ":", "1", ":", "0">>, <<"3">>),
                 Row6(<<"7">>, <<"Y">>, <<"A">>, <<"c">>, Null, <<"x">>),
                 Row6(Null, Null, <<"C">>, Null, <<"a">>, Null) >>]

\* A sheet whose first data row has no code, and other codes and modules
SheetAlt ==
    [name |-> <<"S", "3">>,
     cols |-> <<ColEquipmentCode, ColType, ColModule, ColComponents>>,
     rows |-> << Row4(Null, Null, <<"B">>, <<"b">>),
                 Row4(<<" ", "0", "7">>, Null, <<"A">>, <<"d">>),
                 Row4(<<"A", ",", "1">>, <<"Z">>, Null, <<"b">>) >>]

\* A sheet without the Type and Components columns
SheetPartial ==
    [name |-> <<"P", "1">>, cols |-> <<ColEquipmentCode, ColModule>>,
     rows |-> << (ColEquipmentCode :> <<"7">>) @@ (ColModule :> <<"A">>) >>]

\* A sheet without the Type column, with a record of equipment 7, module A
SheetNoType ==
    [name |-> <<"P", "2">>,
     cols |-> <<ColEquipmentCode, ColModule, ColComponents>>,
     rows |-> << (ColEquipmentCode :> <<"7">>) @@ (ColModule :> <<"A">>)
                 @@ (ColComponents :> <<"c">>),
                 (ColEquipmentCode :> Null) @@ (ColModule :> Null)
                 @@ (ColComponents :> <<"d">>) >>]

Workbooks ==
    << [readable |-> TRUE, sheets |-> <<SheetEmpty, SheetGood, SheetAlt>>],
       [readable |-> TRUE, sheets |-> <<SheetPartial, SheetNoType>>],
       [readable |-> FALSE, sheets |-> <<>>] >>

ErrReadingExcel == <<"Error reading Excel">>
ErrSheetEmpty == <<"Sheet is empty!">>
ErrLoadingSheet == <<"Error loading sheet">>

----------------------------------------------------------------------------
(* Data loading *)

\* The sheet names, or the (None, message) pair returned on failure
get_excel_sheets(file) ==
    IF Workbooks[file].readable
    THEN [i \in 1..Len(Workbooks[file].sheets) |-> Workbooks[file].sheets[i].name]
    ELSE <<Null, ErrReadingExcel>>

\* sheets[1] if len(sheets) > 1 else sheets[0]
default_sheet(sheets) == IF Len(sheets) > 1 THEN sheets[2] ELSE sheets[1]

\* pd.read_excel(excel_file, sheet_name=sheet_name)
read_excel(file, sheet_name) ==
    LET wb == Workbooks[file]
        hit == {i \in 1..Len(wb.sheets) : wb.sheets[i].name = sheet_name}
    IN  IF ~wb.readable \/ hit = {}
        THEN [raised |-> TRUE, df |-> NoneDF]
        ELSE LET sh == wb.sheets[CHOOSE i \in hit : TRUE]
             IN  [raised |-> FALSE, df |-> DF(sh.cols, sh.rows)]

\* df['Equipment Code'].apply(clean_equipment_code) when the column is present
clean_codes(df) ==
    IF HasCol(df, ColEquipmentCode)
    THEN SetColumn(df, ColEquipmentCode,
                   [i \in 1..Len(df.rows) |->
                       clean_equipment_code(df.rows[i][ColEquipmentCode])])
    ELSE df

\* df[col].fillna(method='ffill') when the column is present
ffill_column(df, col) ==
    IF HasCol(df, col) THEN SetColumn(df, col, ffill(Column(df, col))) ELSE df

\* Forward fill Equipment Code, then Type, then Module
ffill_columns(df) ==
    ffill_column(ffill_column(ffill_column(df, ColEquipmentCode), ColType),
                 ColModule)

\* Clean the codes, then forward fill Equipment Code, Type and Module
normalize_sheet(df) == ffill_columns(clean_codes(df))

\* load_sheet_data from the read on: the (df, error) pair it returns
load_frame(read) ==
    IF read.raised THEN [df |-> NoneDF, error |-> ErrLoadingSheet]
    ELSE IF IsEmpty(read.df) THEN [df |-> NoneDF, error |-> ErrSheetEmpty]
    ELSE [df |-> normalize_sheet(read.df), error |-> Null]

load_sheet_data(file, sheet_name) == load_frame(read_excel(file, sheet_name))

----------------------------------------------------------------------------
(* The page: user interactions, then the script run they start *)

Views == {"Equipment Selection", "Analytics", "Summary"}

NoPending == [kind |-> "none"]

\* Python truthiness of a session value
Truthy(x) == x # Null /\ x # <<>>

\* The check without the Type column
required_cols_NoType == <<ColEquipmentCode, ColModule, ColComponents>>

required_cols == <<ColEquipmentCode, ColType, ColModule, ColComponents>>

missing_cols(df) == SelectSeq(required_cols, LAMBDA c : ~HasCol(df, c))

\* What the last run put on the page
EquipmentButtons ==
    IF view_entered = "Equipment Selection" /\ ~exception
    THEN Range(get_equipment_codes(equipment_data)) ELSE {}

ChangeButton ==
    /\ view_entered = "Equipment Selection"
    /\ ~exception
    /\ get_equipment_codes(equipment_data) # <<>>
    /\ Truthy(selected_equipment)

ModuleButtons ==
    IF ChangeButton THEN Range(get_modules(equipment_data, selected_equipment))
    ELSE {}

ChooserOptions ==
    IF ModuleButtons # {} /\ Truthy(selected_module)
    THEN get_components(equipment_data, selected_equipment, selected_module)
    ELSE <<>>

\* The sub-lists of a list, in its order
SubLists(s) ==
    {SelectSeq(s, LAMBDA x : x \in S) : S \in SUBSET Range(s)}

StartRun(what, click) ==
    /\ pc = "idle"
    /\ pc' = "load"
    /\ trigger' = what
    /\ pending' = click
    /\ UNCHANGED <<equipment_data, selected_sheet, selected_equipment,
                   selected_type, selected_module, selected_components,
                   load_ret, reported, view_entered, export, displayed,
                   exception, fnvars>>

UploadFile(f) ==
    /\ f # excel_file
    /\ excel_file' = f
    /\ sheet_choice' = default_sheet(get_excel_sheets(f))
    /\ view_mode' = view_mode
    /\ StartRun([kind |-> "upload"], NoPending)

RemoveFile ==
    /\ excel_file # 0
    /\ excel_file' = 0
    /\ sheet_choice' = Null
    /\ view_mode' = view_mode
    /\ StartRun([kind |-> "remove"], NoPending)

\* The options of the sheet selectbox
SheetOptions ==
    IF excel_file = 0 THEN {} ELSE Range(get_excel_sheets(excel_file))

ChooseSheet(s) ==
    /\ s \in SheetOptions
    /\ s # sheet_choice
    /\ sheet_choice' = s
    /\ UNCHANGED <<excel_file, view_mode>>
    /\ StartRun([kind |-> "sheet"], NoPending)

SwitchView(v) ==
    /\ v # view_mode
    /\ view_mode' = v
    /\ UNCHANGED <<excel_file, sheet_choice>>
    /\ StartRun([kind |-> "view"], NoPending)

ClickSelectEquipment(code) ==
    /\ code \in EquipmentButtons
    /\ UNCHANGED <<excel_file, sheet_choice, view_mode>>
    /\ StartRun([kind |-> "select_equipment", value |-> code],
                [kind |-> "equipment", value |-> code])

ClickChangeEquipment ==
    /\ ChangeButton
    /\ UNCHANGED <<excel_file, sheet_choice, view_mode>>
    /\ StartRun([kind |-> "change_equipment"], [kind |-> "change"])

ClickSelectModule(module) ==
    /\ module \in ModuleButtons
    /\ UNCHANGED <<excel_file, sheet_choice, view_mode>>
    /\ StartRun([kind |-> "select_module", value |-> module],
                [kind |-> "module", value |-> module])

ChooseComponents(chosen) ==
    /\ chosen \in SubLists(ChooserOptions)
    /\ ChooserOptions # <<>>
    /\ chosen # selected_components
    /\ UNCHANGED <<excel_file, sheet_choice, view_mode>>
    /\ StartRun([kind |-> "components", value |-> chosen],
                [kind |-> "components", value |-> chosen])

\* The load storing its result before looking at the error
LoadSheet_StoreAlways ==
    /\ pc = "load"
    /\ pc' = "main"
    /\ IF excel_file = 0
       THEN /\ load_ret' = [df |-> NoneDF, error |-> Null]
            /\ UNCHANGED <<equipment_data, selected_sheet>>
       ELSE LET r == load_sheet_data(excel_file, sheet_choice)
            IN  /\ load_ret' = r
                /\ equipment_data' = r.df
                /\ selected_sheet' = sheet_choice
    /\ UNCHANGED <<excel_file, sheet_choice, view_mode, selected_equipment,
                   selected_type, selected_module, selected_components,
                   pending, trigger, reported, view_entered, export,
                   displayed, exception, fnvars>>

\* Sidebar: load the selected sheet of the uploaded file
LoadSheet ==
    /\ pc = "load"
    /\ pc' = "main"
    /\ IF excel_file = 0
       THEN /\ load_ret' = [df |-> NoneDF, error |-> Null]
            /\ UNCHANGED <<equipment_data, selected_sheet>>
       ELSE LET r == load_sheet_data(excel_file, sheet_choice)
            IN  /\ load_ret' = r
                /\ IF r.error = Null
                   THEN /\ equipment_data' = r.df
                        /\ selected_sheet' = sheet_choice
                   ELSE UNCHANGED <<equipment_data, selected_sheet>>
    /\ UNCHANGED <<excel_file, sheet_choice, view_mode, selected_equipment,
                   selected_type, selected_module, selected_components,
                   pending, trigger, reported, view_entered, export,
                   displayed, exception, fnvars>>

\* Sidebar: the rows behind the download button, NoneDF when it is not shown
SidebarExport ==
    IF ~equipment_data.none /\ selected_components # <<>>
    THEN LET filtered == filter_data(equipment_data, selected_equipment,
                                     selected_module, selected_components)
         IN  IF ~filtered.none /\ Len(filtered.rows) > 0 THEN filtered ELSE NoneDF
    ELSE NoneDF

\* The part of every run below the sidebar's load
MainContent ==
    /\ pc = "main"
    /\ export' = SidebarExport
    /\ UNCHANGED <<excel_file, sheet_choice, view_mode, equipment_data,
                   selected_sheet, load_ret, trigger, fnvars>>

\* The run ends and waits for the next interaction
EndRun(view, missing, shown, raised) ==
    /\ pc' = "idle"
    /\ pending' = NoPending
    /\ view_entered' = view
    /\ reported' = missing
    /\ displayed' = shown
    /\ exception' = raised

\* st.rerun(): the run is abandoned and the script starts again
Rerun ==
    /\ pc' = "load"
    /\ pending' = NoPending
    /\ UNCHANGED <<view_entered, reported, displayed, exception>>

StopNoData ==
    /\ MainContent
    /\ equipment_data.none
    /\ EndRun(NoView, <<>>, NoneDF, FALSE)
    /\ UNCHANGED <<selected_equipment, selected_type, selected_module,
                   selected_components>>

StopMissingColumns ==
    /\ MainContent
    /\ ~equipment_data.none
    /\ missing_cols(equipment_data) # <<>>
    /\ EndRun(NoView, missing_cols(equipment_data), NoneDF, FALSE)
    /\ UNCHANGED <<selected_equipment, selected_type, selected_module,
                   selected_components>>

InView(view) ==
    /\ MainContent
    /\ ~equipment_data.none
    /\ missing_cols(equipment_data) = <<>>
    /\ view_mode = view

EquipmentFires ==
    /\ pending.kind = "equipment"
    /\ pending.value \in Range(get_equipment_codes(equipment_data))

ChangeFires ==
    /\ pending.kind = "change"
    /\ get_equipment_codes(equipment_data) # <<>>
    /\ Truthy(selected_equipment)

ModuleFires ==
    /\ pending.kind = "module"
    /\ get_equipment_codes(equipment_data) # <<>>
    /\ Truthy(selected_equipment)
    /\ pending.value \in Range(get_modules(equipment_data, selected_equipment))

\* The handler without the reset of the components
SelectEquipmentHandler_KeepComponents ==
    /\ InView("Equipment Selection")
    /\ EquipmentFires
    /\ selected_equipment' = pending.value
    /\ selected_type' = get_type_for_equipment(equipment_data, pending.value)
    /\ selected_module' = Null
    /\ UNCHANGED selected_components
    /\ Rerun

SelectEquipmentHandler ==
    /\ InView("Equipment Selection")
    /\ EquipmentFires
    /\ selected_equipment' = pending.value
    /\ selected_type' = get_type_for_equipment(equipment_data, pending.value)
    /\ selected_module' = Null
    /\ selected_components' = <<>>
    /\ Rerun

ChangeEquipmentHandler ==
    /\ InView("Equipment Selection")
    /\ ~EquipmentFires
    /\ ChangeFires
    /\ selected_equipment' = Null
    /\ selected_type' = Null
    /\ UNCHANGED <<selected_module, selected_components>>
    /\ Rerun

SelectModuleHandler ==
    /\ InView("Equipment Selection")
    /\ ~EquipmentFires
    /\ ~ChangeFires
    /\ ModuleFires
    /\ selected_module' = pending.value
    /\ selected_components' = <<>>
    /\ UNCHANGED <<selected_equipment, selected_type>>
    /\ Rerun

\* filter_data's rows when there are any, as the views show them
RowsOrNone(filtered) ==
    IF ~filtered.none /\ ~IsEmpty(filtered) THEN filtered ELSE NoneDF

\* The default without the fallback to the first component
chooser_default_NoFallback(components) == selected_components

\* default= of the component multiselect
chooser_default(components) ==
    IF selected_components # <<>> THEN selected_components
    ELSE SubSeq(components, 1, 1)

\* The view without a button press: the component chooser and the preview
RenderSelection ==
    /\ InView("Equipment Selection")
    /\ ~EquipmentFires /\ ~ChangeFires /\ ~ModuleFires
    /\ UNCHANGED <<selected_equipment, selected_type, selected_module>>
    /\ LET df == equipment_data
           components == get_components(df, selected_equipment, selected_module)
           shown == /\ get_equipment_codes(df) # <<>>
                    /\ Truthy(selected_equipment)
                    /\ get_modules(df, selected_equipment) # <<>>
                    /\ Truthy(selected_module)
                    /\ components # <<>>
           default == chooser_default(components)
           \* st.multiselect: the user's choice in the run that delivers it,
           \* the default otherwise; a default outside the options raises
           chosen == IF pending.kind = "components" THEN pending.value ELSE default
       IN  IF ~shown
           THEN /\ UNCHANGED selected_components
                /\ EndRun("Equipment Selection", <<>>, NoneDF, FALSE)
           ELSE IF ~(Range(default) \subseteq Range(components))
           THEN /\ UNCHANGED selected_components
                /\ EndRun("Equipment Selection", <<>>, NoneDF, TRUE)
           ELSE /\ selected_components' = chosen
                /\ EndRun("Equipment Selection", <<>>,
                          IF chosen # <<>>
                          THEN RowsOrNone(filter_data(df, selected_equipment,
                                                      selected_module, chosen))
                          ELSE NoneDF,
                          FALSE)

RenderAnalytics ==
    /\ InView("Analytics")
    /\ UNCHANGED <<selected_equipment, selected_type, selected_module,
                   selected_components>>
    /\ IF ~Truthy(selected_equipment) \/ selected_components = <<>>
       THEN EndRun("Analytics", <<>>, NoneDF, FALSE)
       ELSE EndRun("Analytics", <<>>,
                   RowsOrNone(filter_data(equipment_data, selected_equipment,
                                          selected_module, selected_components)),
                   FALSE)

RenderSummary ==
    /\ InView("Summary")
    /\ UNCHANGED <<selected_equipment, selected_type, selected_module,
                   selected_components>>
    /\ EndRun("Summary", <<>>, NoneDF, FALSE)

Init ==
    /\ SessionInit
    /\ call = "none"
    /\ arg = Null
    /\ ret = Null

Next ==
    \/ \E f \in 1..Len(Workbooks) : UploadFile(f)
    \/ RemoveFile
    \/ \E s \in SheetOptions : ChooseSheet(s)
    \/ \E v \in Views : SwitchView(v)
    \/ \E code \in EquipmentButtons : ClickSelectEquipment(code)
    \/ ClickChangeEquipment
    \/ \E module \in ModuleButtons : ClickSelectModule(module)
    \/ \E chosen \in SubLists(ChooserOptions) : ChooseComponents(chosen)
    \/ LoadSheet
    \/ StopNoData
    \/ StopMissingColumns
    \/ SelectEquipmentHandler
    \/ ChangeEquipmentHandler
    \/ SelectModuleHandler
    \/ RenderSelection
    \/ RenderAnalytics
    \/ RenderSummary

Spec == Init /\ [][Next]_vars

----------------------------------------------------------------------------
(* Properties of the page *)

\* The state a handler leaves behind, before the rerun it asked for starts
HandlerDone(kind) == pc = "load" /\ pending = NoPending /\ trigger.kind = kind

\* C1: 'Select <code>' sets selected_equipment to the code and leaves the
\* module null and the components empty; 'select module' sets selected_module
\* and leaves the components empty, whatever the lower levels held before.
C1_CascadeInvalidation ==
    /\ HandlerDone("select_equipment") =>
          /\ selected_equipment = trigger.value
          /\ selected_module = Null
          /\ selected_components = <<>>
    /\ HandlerDone("select_module") =>
          /\ selected_module = trigger.value
          /\ selected_components = <<>>

\* 'Select <code>' pressed while a module and components were selected and
\* their records were on the page
C1_Witness ==
    /\ HandlerDone("select_equipment")
    /\ displayed # NoneDF
    /\ selected_equipment = <<"7">>
    /\ selected_components = <<>>

\* C6: in a table stored by load_sheet_data from a sheet with an 'Equipment
\* Code' column, no row has a null Equipment Code.
C6_NoNullCodeAfterLoad ==
    (~equipment_data.none /\ HasCol(equipment_data, ColEquipmentCode)) =>
        \A i \in 1..Len(equipment_data.rows) :
            equipment_data.rows[i][ColEquipmentCode] # Null

\* C7: a load that reports an error returns no table and leaves the loaded
\* table, selected_sheet and the selection path as they were.
C7_FailedLoadKeepsState ==
    [][(pc = "load" /\ pc' = "main" /\ load_ret'.error # Null) =>
          /\ load_ret'.df = NoneDF
          /\ UNCHANGED <<equipment_data, selected_sheet, selected_equipment,
                         selected_type, selected_module, selected_components>>]_vars

\* An empty sheet chosen while a table is loaded and a module is selected
C7_Witness ==
    /\ pc = "main"
    /\ load_ret.error = ErrSheetEmpty
    /\ ~equipment_data.none
    /\ selected_sheet = <<"S", "2">>
    /\ sheet_choice = <<"S", "1">>
    /\ Truthy(selected_module)

\* C8: while the loaded table lacks a required column, every finished run has
\* reported exactly the missing names and entered none of the three views.
C8_MissingColumnsBlockViews ==
    LET four == <<ColEquipmentCode, ColType, ColModule, ColComponents>>
        absent(c) == \A i \in 1..Len(equipment_data.cols) : equipment_data.cols[i] # c
    IN  (pc = "idle" /\ ~equipment_data.none /\ \E k \in 1..4 : absent(four[k])) =>
            /\ reported = SelectSeq(four, absent)
            /\ view_entered = NoView
            /\ displayed = NoneDF

\* After a selection under a complete table, a table without Type and
\* Components is loaded and the Analytics view is asked for
C8_Witness ==
    /\ pc = "idle"
    /\ reported = <<ColType, ColComponents>>
    /\ view_mode = "Analytics"
    /\ Truthy(selected_module)
    /\ trigger.kind = "view"

\* C9: once the runs started by 'select module' have finished, for a module
\* with components, selected_components holds exactly the smallest component
\* of that module and the records shown are those of that component.
C9_DefaultFirstComponent ==
    LET df == equipment_data
        inScope(r) == /\ r[ColEquipmentCode] = selected_equipment
                      /\ r[ColModule] = trigger.value
                      /\ r[ColComponents] # Null
        comps == {r[ColComponents] : r \in {x \in Range(df.rows) : inScope(x)}}
    IN  (pc = "idle" /\ trigger.kind = "select_module" /\ comps # {}) =>
            /\ selected_module = trigger.value
            /\ Len(selected_components) = 1
            /\ selected_components[1] \in comps
            /\ \A c \in comps : ~TextLess(c, selected_components[1])
            /\ displayed.rows = SelectSeq(df.rows,
                  LAMBDA r : inScope(r) /\ r[ColComponents] = selected_components[1])

\* Module B of equipment 10 lists component "b" before "ab"; "ab" is chosen
C9_Witness ==
    /\ pc = "idle"
    /\ trigger.kind = "select_module"
    /\ selected_equipment = <<"1", "0">>
    /\ selected_components = << <<"a", "b">> >>
    /\ Len(displayed.rows) = 1

\* C13: in every reachable state selected_module is non-null only if
\* selected_equipment is non-null, and selected_components is non-empty only
\* if selected_module is non-null.
C13_CascadeOrdering ==
    /\ selected_module # Null => selected_equipment # Null
    /\ selected_components # <<>> => selected_module # Null

\* C14: in every reachable state the selection fits the loaded table:
\* selected_equipment is null or one of its equipment codes, selected_type is
\* the type of selected_equipment in it, selected_module is null or one of the
\* modules of selected_equipment, and selected_components are among the
\* components of that equipment and module.
C14_SelectionFitsTable ==
    /\ \/ selected_equipment = Null
       \/ selected_equipment \in Range(get_equipment_codes(equipment_data))
    /\ selected_type = get_type_for_equipment(equipment_data, selected_equipment)
    /\ \/ selected_module = Null
       \/ selected_module \in
              Range(get_modules(equipment_data, selected_equipment))
    /\ Range(selected_components) \subseteq
           Range(get_components(equipment_data, selected_equipment,
                                selected_module))

\* C15: on every finished page that offers the download, the loaded table
\* has the four required columns, an equipment, a module and components are
\* selected, and the rows offered are exactly the non-empty result of
\* filter_data for that selection.
C15_ExportOnlyWithViews ==
    (pc = "idle" /\ export # NoneDF) =>
        /\ \A c \in {ColEquipmentCode, ColType, ColModule, ColComponents} :
               HasCol(equipment_data, c)
        /\ selected_equipment # Null
        /\ selected_module # Null
        /\ selected_components # <<>>
        /\ export = filter_data(equipment_data, selected_equipment,
                                selected_module, selected_components)
        /\ export.rows # <<>>

----------------------------------------------------------------------------
(* clean_equipment_code applied to every short cell text *)

MaxCodeLen == 4

CodeChars == {"0", "7", ",", " ", "A"}

CodeInputs == {Null} \cup TextsUpTo(CodeChars, MaxCodeLen)

InitClean ==
    /\ SessionInit
    /\ call = "none"
    /\ arg \in CodeInputs
    /\ ret = Null

ApplyClean ==
    /\ call = "none"
    /\ call' = "clean_equipment_code"
    /\ ret' = clean_equipment_code(arg)
    /\ UNCHANGED <<appvars, arg>>

SpecClean == InitClean /\ [][ApplyClean]_vars

AllDigits(s) == s # <<>> /\ \A i \in 1..Len(s) : IsDigit(s[i])

\* C4: for every non-null input the cleaned code contains no comma, and when
\* the input without commas and surrounding whitespace is a string of decimal
\* digits the result is its base-10 form without leading zeros.
C4_CleanNoCommaCanonical ==
    (call = "clean_equipment_code" /\ arg # Null) =>
        /\ \A i \in 1..Len(ret) : ret[i] # ","
        /\ AllDigits(Strip(RemoveChar(arg, ","))) =>
              /\ AllDigits(ret)
              /\ DigitsVal(ret) = DigitsVal(Strip(RemoveChar(arg, ",")))
              /\ Len(ret) = 1 \/ Head(ret) # "0"

----------------------------------------------------------------------------
(* time_str_to_seconds applied to every short cell text *)

MaxTimeLen == 6

TimeChars == {"0", "9", ":", "-", "a"}

TimeInputs == {Null} \cup TextsUpTo(TimeChars, MaxTimeLen)

InitTime ==
    /\ SessionInit
    /\ call = "none"
    /\ arg \in TimeInputs
    /\ ret = 0

ApplyTime ==
    /\ call = "none"
    /\ call' = "time_str_to_seconds"
    /\ ret' = time_str_to_seconds(arg)
    /\ UNCHANGED <<appvars, arg>>

SpecTime == InitTime /\ [][ApplyTime]_vars

\* HH:MM:SS: three fields of digits, minutes and seconds below 60
WellFormedHMS(t) ==
    /\ t # Null
    /\ Len(Split(t, ":")) = 3
    /\ \A k \in 1..3 : AllDigits(Split(t, ":")[k])
    /\ DigitsVal(Split(t, ":")[2]) < 60
    /\ DigitsVal(Split(t, ":")[3]) < 60

\* C5: time_str_to_seconds returns a non-negative integer: h*3600+m*60+s for
\* well-formed HH:MM:SS text and 0 for every other input, including text with
\* a negative or out-of-range field.
C5_DurationNonNegativeFailSoft ==
    call = "time_str_to_seconds" =>
        /\ ret \in Nat
        /\ IF WellFormedHMS(arg)
           THEN ret = DigitsVal(Split(arg, ":")[1]) * 3600
                      + DigitsVal(Split(arg, ":")[2]) * 60
                      + DigitsVal(Split(arg, ":")[3])
           ELSE ret = 0

----------------------------------------------------------------------------
(* The cascading filters applied to every small table *)

MaxRows == 2

QueryCols == <<ColEquipmentCode, ColModule, ColComponents>>

QueryCodes == {<<"7">>, <<"1", "0">>}
QueryModules == {<<"B">>, <<"A", "B">>}
QueryComponents == {<<"b">>, <<"a", "b">>}

QueryRows(codes) ==
    {(ColEquipmentCode :> c) @@ (ColModule :> m) @@ (ColComponents :> k) :
        c \in codes, m \in QueryModules \cup {Null},
        k \in QueryComponents \cup {Null}}

\* At most one row without a code, and first: forward fill leaves no
\* code empty below a row that has one
QueryTables ==
    {DF(QueryCols, blank \o coded) :
        blank \in UNION {[1..n -> QueryRows({Null})] : n \in 0..1},
        coded \in UNION {[1..n -> QueryRows(QueryCodes)] : n \in 0..MaxRows}}

InitQuery ==
    /\ SessionInit
    /\ call = "none"
    /\ arg \in {[df |-> t] : t \in QueryTables}
    /\ ret = Null

ApplyFilter(code, module, components) ==
    /\ call = "none"
    /\ call' = "filter_data"
    /\ arg' = [df |-> arg.df, code |-> code, module |-> module,
               components |-> components]
    /\ ret' = filter_data(arg.df, code, module, components)
    /\ UNCHANGED appvars

ApplyModules(code) ==
    /\ call = "none"
    /\ call' = "get_modules"
    /\ arg' = [df |-> arg.df, code |-> code]
    /\ ret' = get_modules(arg.df, code)
    /\ UNCHANGED appvars

ApplyComponents(code, module) ==
    /\ call = "none"
    /\ call' = "get_components"
    /\ arg' = [df |-> arg.df, code |-> code, module |-> module]
    /\ ret' = get_components(arg.df, code, module)
    /\ UNCHANGED appvars

NextQuery ==
    \/ \E code \in QueryCodes, module \in QueryModules,
          components \in SubLists(<< <<"a", "b">>, <<"b">> >>) :
           ApplyFilter(code, module, components)
    \/ \E code \in QueryCodes : ApplyModules(code)
    \/ \E code \in QueryCodes, module \in QueryModules :
           ApplyComponents(code, module)

SpecQuery == InitQuery /\ [][NextQuery]_vars

\* C2: filter_data returns exactly the rows whose code and module match and,
\* for a non-empty component set, whose component is in the set: each such
\* row once, unaltered, in the table's order.
C2_FilterExactRows ==
    call = "filter_data" =>
        LET rows == arg.df.rows
            keep == {i \in 1..Len(rows) :
                        /\ rows[i][ColEquipmentCode] = arg.code
                        /\ rows[i][ColModule] = arg.module
                        /\ \/ arg.components = <<>>
                           \/ \E j \in 1..Len(arg.components) :
                                  rows[i][ColComponents] = arg.components[j]}
            kth(k) == CHOOSE i \in keep : Cardinality({j \in keep : j < i}) = k - 1
        IN  /\ ~ret.none
            /\ ret.cols = arg.df.cols
            /\ Len(ret.rows) = Cardinality(keep)
            /\ \A k \in 1..Len(ret.rows) : ret.rows[k] = rows[kth(k)]

\* Both components asked for; a first row without code, then the same
\* matching row twice
C2_Witness ==
    /\ call = "filter_data"
    /\ Len(arg.components) = 2
    /\ Len(arg.df.rows) = 3
    /\ arg.df.rows[1][ColEquipmentCode] = Null
    /\ arg.df.rows[1][ColModule] = arg.module
    /\ arg.df.rows[2] = arg.df.rows[3]
    /\ Len(ret.rows) = 2

StrictlyAscending(s) == \A i \in 1..(Len(s) - 1) : TextLess(s[i], s[i + 1])

\* C3: get_modules and get_components return exactly the non-null values in
\* their scope, in strictly ascending lexicographic order (so no duplicates);
\* an empty scope gives the empty list.
C3_ListsExactSorted ==
    LET rows == Range(arg.df.rows)
    IN  /\ call = "get_modules" =>
              /\ Range(ret) = {r[ColModule] :
                                  r \in {x \in rows : x[ColEquipmentCode] = arg.code}}
                              \ {Null}
              /\ StrictlyAscending(ret)
        /\ call = "get_components" =>
              /\ Range(ret) = {r[ColComponents] :
                                  r \in {x \in rows :
                                            /\ x[ColEquipmentCode] = arg.code
                                            /\ x[ColModule] = arg.module}}
                              \ {Null}
              /\ StrictlyAscending(ret)

\* A row without code, then component "b" before "ab" in the scope
C3_Witness ==
    /\ call = "get_components"
    /\ ret = << <<"a", "b">>, <<"b">> >>
    /\ Len(arg.df.rows) = 3
    /\ arg.df.rows[1][ColEquipmentCode] = Null
    /\ arg.df.rows[1][ColModule] = arg.module
    /\ arg.df.rows[2][ColComponents] = <<"b">>
    /\ arg.df.rows[3][ColComponents] = <<"a", "b">>

----------------------------------------------------------------------------
(* calculate_stats applied to every small row set *)

MaxStatsRows == 2

ColTimeTotalUpper == <<"T", "I", "M", "E", " ", "T", "O", "T", "A", "L">>
ColTotal == <<"T", "o", "t", "a", "l">>

StatsCols ==
    { <<ColTotalTime>>, <<ColTotal>>, <<ColManpower>>,
      <<ColTotalTime, ColTimeTotalUpper>>, <<ColTimeTotalUpper, ColTotalTime>>,
      <<ColTotal, ColTotalTime>>, <<ColTotalTime, ColManpower>>,
      <<ColManpower, ColTotal>> }

StatsCells == {Null, <<"0", ":", "0", ":", "9">>, <<"2">>, <<"x">>}

StatsTablesWith(cols) ==
    {DF(cols, rows) :
        rows \in UNION {[1..n -> [Range(cols) -> StatsCells]] : n \in 0..MaxStatsRows}}

StatsTables == {NoneDF} \cup UNION {StatsTablesWith(cols) : cols \in StatsCols}

InitStats ==
    /\ SessionInit
    /\ call = "none"
    /\ arg \in StatsTables
    /\ ret = Null

ApplyStats ==
    /\ call = "none"
    /\ call' = "calculate_stats"
    /\ ret' = calculate_stats(arg)
    /\ UNCHANGED <<appvars, arg>>

SpecStats == InitStats /\ [][ApplyStats]_vars

\* The total-time columns of a table: lower-cased name with 'total' and 'time'
TotalTimeHits(df) ==
    {i \in 1..Len(df.cols) :
        /\ Contains(Lower(df.cols[i]), <<"t", "o", "t", "a", "l">>)
        /\ Contains(Lower(df.cols[i]), <<"t", "i", "m", "e">>)}

\* The sum of time_str_to_seconds over the first total-time column
ExpectedTotal(df) ==
    IF TotalTimeHits(df) = {} THEN 0
    ELSE LET first == CHOOSE i \in TotalTimeHits(df) :
                          \A j \in TotalTimeHits(df) : i <= j
         IN  SumSeq([i \in 1..Len(df.rows) |->
                        time_str_to_seconds(df.rows[i][df.cols[first]])])

AllZero(stats) ==
    stats.records = 0 /\ stats.total_time = 0 /\ stats.avg_manpower = Zero

----------------------------------------------------------------------------
(* load_sheet_data applied to every small sheet *)

MaxLoadRows == 3

LoadCols ==
    { <<ColEquipmentCode, ColType, ColModule>>,
      <<ColEquipmentCode, ColType>>,
      <<ColModule, ColComponents>> }

LoadCodes == {Null, <<"7">>, <<"1", ",", "0">>}
LoadTypes == {Null, <<"X">>, <<"Y">>}
LoadModules == {Null, <<"A">>}
LoadComponents == {Null, <<"c">>}

LoadCells(col) ==
    IF col = ColEquipmentCode THEN LoadCodes
    ELSE IF col = ColType THEN LoadTypes
    ELSE IF col = ColModule THEN LoadModules
    ELSE LoadComponents

LoadRows(cols) ==
    {r \in [Range(cols) -> LoadCodes \cup LoadTypes \cup LoadModules
                           \cup LoadComponents] :
        \A c \in Range(cols) : r[c] \in LoadCells(c)}

\* The sheets over cols of at most n rows
LoadSheets(cols, n) ==
    {DF(cols, rows) : rows \in UNION {[1..k -> LoadRows(cols)] : k \in 0..n}}

InitLoad ==
    /\ SessionInit
    /\ call = "none"
    /\ \E cols \in LoadCols :
           arg \in {[sheet |-> t] : t \in LoadSheets(cols, MaxLoadRows)}
    /\ ret = Null

\* The sheet as read, the table after the code cleaning (before the fill)
\* and the pair load_sheet_data returns
ApplyLoad ==
    /\ call = "none"
    /\ call' = "load_sheet_data"
    /\ arg' = [sheet |-> arg.sheet, cleaned |-> clean_codes(arg.sheet)]
    /\ ret' = load_frame([raised |-> FALSE, df |-> arg.sheet])
    /\ UNCHANGED appvars

SpecLoad == InitLoad /\ [][ApplyLoad]_vars

Loaded == call = "load_sheet_data" /\ ret.error = Null

\* C11: in every table load_sheet_data produces, any two rows with the same
\* equipment code have the same Type.
C11_TypeDependsOnCode ==
    (Loaded /\ HasCol(ret.df, ColEquipmentCode) /\ HasCol(ret.df, ColType)) =>
        \A i, j \in 1..Len(ret.df.rows) :
            (/\ ret.df.rows[i][ColEquipmentCode] # Null
             /\ ret.df.rows[i][ColEquipmentCode] = ret.df.rows[j][ColEquipmentCode])
            => ret.df.rows[i][ColType] = ret.df.rows[j][ColType]

FilledCols == {ColEquipmentCode, ColType, ColModule}

\* The nearest non-null cell of column c above row i, or Null
NearestAbove(rows, i, c) ==
    LET valid == {j \in 1..(i - 1) : rows[j][c] # Null}
    IN  IF valid = {} THEN Null
        ELSE rows[CHOOSE j \in valid : \A k \in valid : k <= j][c]

\* C12: the forward fill keeps the columns, the number and order of the rows,
\* the other columns and every non-null cell; a null cell of Equipment Code,
\* Type or Module gets the nearest non-null value above it in its column, or
\* stays null when there is none; and filling the result again changes nothing.
C12_FfillNearestIdempotent ==
    Loaded =>
        LET before == arg.cleaned.rows
            after == ret.df.rows
        IN  /\ ret.df.cols = arg.cleaned.cols
            /\ Len(after) = Len(before)
            /\ \A i \in 1..Len(after) : \A c \in Range(ret.df.cols) :
                  after[i][c] =
                      IF c \in FilledCols /\ before[i][c] = Null
                      THEN NearestAbove(before, i, c)
                      ELSE before[i][c]
            /\ ffill_columns(ret.df) = ret.df

Reverse(s) == [i \in 1..Len(s) |-> s[Len(s) + 1 - i]]

\* Types X, Y, empty: the third row is filled with Y, not X; with the rows in
\* reverse order the same record comes first and stays without a Type
C12_Witness ==
    /\ Loaded
    /\ ret.df.cols = <<ColEquipmentCode, ColType, ColModule>>
    /\ Len(ret.df.rows) = 3
    /\ arg.cleaned.rows[1][ColType] = <<"X">>
    /\ arg.cleaned.rows[2][ColType] = <<"Y">>
    /\ arg.cleaned.rows[3][ColType] = Null
    /\ arg.cleaned.rows[2][ColEquipmentCode] = Null
    /\ ret.df.rows[3][ColType] = <<"Y">>
    /\ ret.df.rows[2][ColEquipmentCode] = <<"1", "0">>
    /\ ffill_columns([arg.cleaned EXCEPT !.rows = Reverse(@)]).rows[1][ColType] = Null
    /\ ffill_columns([arg.cleaned EXCEPT !.rows = Reverse(@)]).rows
           # Reverse(ret.df.rows)

====
